---- MODULE Spec2Model ----
(***************************************************************************)
(* State-machine model of the fencing game engine (FencingTask) of         *)
(* src/src/tot/tasks/fencing_game.py.                                      *)
(*                                                                         *)
(* Encoding of Python values:                                              *)
(*   - a debuff is a string, Python's None is the string "None";           *)
(*   - an optional integer (config['action_points'], state['p1_ap'],       *)
(*     state['p2_ap']) is a sequence: <<>> is None, <<n>> is the int n;    *)
(*   - config['action_costs'] is a function on action names; None is the   *)
(*     empty function <<>> (both are falsy in the source's test).          *)
(*                                                                         *)
(* game_mode, state, game_history are the attributes of one FencingTask;   *)
(* call is the last method call on it; run is the caller's side: the       *)
(* locals of run_game (src/run_fencing.py) or of a parse_action call.      *)
(***************************************************************************)
EXTENDS Integers, Sequences, FiniteSets, TLC

VARIABLES game_mode, state, game_history, call, run

vars == <<game_mode, state, game_history, call, run>>

(* ------------------------------ bounds --------------------------------- *)

\* resolve_turn calls per match in Spec
MaxTurns == 3
\* resolve_turn calls after the replayed opening in SpecReplay
MaxReplayTurns == 1
\* damaging turns against each player in the replayed opening of SpecReplay
MaxLost == 3
\* lines of a model answer in SpecParse
MaxLines == 2
\* largest --max_turns of a run_game call in SpecRun
MaxTurnLimit == 2
\* resolve_turn calls per match in SpecLegal, outside action_points mode
MaxLegalTurns == 2
\* the --max_turns of the long run_game calls in action_points mode, where
\* the action points end a match
MaxAPTurnLimit == 6
\* the --max_turns of the run_game calls in SpecRunDuel
MaxDuelTurnLimit == 5
\* resolve_turn calls on the two matches of SpecTwo, taken together
MaxTwoTurns == 2

(* --------------------------- Python values ----------------------------- *)

None == "None"
NoInt == <<>>
Int1(n) == <<n>>
Val(x) == x[1]

Actions == {"ATTACK", "DEFEND", "KICKS", "FEINT"}
Debuffs == {"Cannot Attack", "Cannot Defend", "Cannot Kick", "Cannot Feint"}
Players == {1, 2}
Modes == {"standard", "no_kick", "first_blood", "action_points"}

(* ------------------------- mode configurations ------------------------- *)

GAME_MODES ==
  [ standard |->
      [ hp |-> 3, action_points |-> NoInt,
        actions |-> <<"ATTACK", "DEFEND", "KICKS", "FEINT">>,
        action_costs |-> <<>>,
        win_condition |-> "hp_zero", debuffs |-> TRUE ],
    no_kick |->
      [ hp |-> 3, action_points |-> NoInt,
        actions |-> <<"ATTACK", "DEFEND", "FEINT">>,
        action_costs |-> <<>>,
        win_condition |-> "hp_zero", debuffs |-> TRUE ],
    first_blood |->
      [ hp |-> 3, action_points |-> NoInt,
        actions |-> <<"ATTACK", "DEFEND", "KICKS", "FEINT">>,
        action_costs |-> <<>>,
        win_condition |-> "first_damage", debuffs |-> TRUE ],
    action_points |->
      [ hp |-> 3, action_points |-> Int1(5),
        actions |-> <<"ATTACK", "DEFEND", "KICKS", "FEINT">>,
        action_costs |-> [ATTACK |-> 2, DEFEND |-> 1, KICKS |-> 2, FEINT |-> 1],
        win_condition |-> "ap_zero_or_hp_zero", debuffs |-> FALSE ] ]

\* self.config
config == GAME_MODES[game_mode]

\* `self.config['action_points'] is not None and self.config['action_costs']`
UsesAP(cfg) == cfg.action_points # NoInt /\ DOMAIN cfg.action_costs # {}

\* InitialState with 5 action points in every mode
InitialState_AlwaysAP(cfg) ==
  [ p1_hp |-> cfg.hp, p2_hp |-> cfg.hp,
    p1_ap |-> Int1(5), p2_ap |-> Int1(5),
    p1_debuff |-> None, p2_debuff |-> None,
    turn |-> 0, first_damage_dealt |-> FALSE ]

\* the state dictionary built by __init__ (and by reset)
InitialState(cfg) ==
  [ p1_hp |-> cfg.hp, p2_hp |-> cfg.hp,
    p1_ap |-> cfg.action_points, p2_ap |-> cfg.action_points,
    p1_debuff |-> None, p2_debuff |-> None,
    turn |-> 0, first_damage_dealt |-> FALSE ]

(* ------------------------ get_available_actions ------------------------ *)

\* list.remove(x): drops the first occurrence of x
RECURSIVE ListRemove(_, _)
ListRemove(s, x) ==
  IF s = <<>> THEN <<>>
  ELSE IF Head(s) = x THEN Tail(s)
  ELSE <<Head(s)>> \o ListRemove(Tail(s), x)

\* `x in list`
InList(x, s) == \E i \in 1..Len(s) : s[i] = x

\* RemoveDebuffed without the branch for 'Cannot Feint'
RemoveDebuffed_KeepsFeint(avail, my_debuff) ==
  IF my_debuff = "Cannot Attack" /\ InList("ATTACK", avail)
    THEN ListRemove(avail, "ATTACK")
  ELSE IF my_debuff = "Cannot Defend" /\ InList("DEFEND", avail)
    THEN ListRemove(avail, "DEFEND")
  ELSE IF my_debuff = "Cannot Kick" /\ InList("KICKS", avail)
    THEN ListRemove(avail, "KICKS")
  ELSE avail

\* the if/elif chain over my_debuff
RemoveDebuffed(avail, my_debuff) ==
  IF my_debuff = "Cannot Attack" /\ InList("ATTACK", avail)
    THEN ListRemove(avail, "ATTACK")
  ELSE IF my_debuff = "Cannot Defend" /\ InList("DEFEND", avail)
    THEN ListRemove(avail, "DEFEND")
  ELSE IF my_debuff = "Cannot Kick" /\ InList("KICKS", avail)
    THEN ListRemove(avail, "KICKS")
  ELSE IF my_debuff = "Cannot Feint" /\ InList("FEINT", avail)
    THEN ListRemove(avail, "FEINT")
  ELSE avail

\* Affordable with `<` in place of `<=`
RECURSIVE Affordable_Strict(_, _, _)
Affordable_Strict(avail, costs, my_ap) ==
  IF avail = <<>> THEN <<>>
  ELSE IF costs[Head(avail)] < my_ap
    THEN <<Head(avail)>> \o Affordable_Strict(Tail(avail), costs, my_ap)
  ELSE Affordable_Strict(Tail(avail), costs, my_ap)

\* Affordable that lets a player overdraw by one action point
RECURSIVE Affordable_Overdraw(_, _, _)
Affordable_Overdraw(avail, costs, my_ap) ==
  IF avail = <<>> THEN <<>>
  ELSE IF costs[Head(avail)] <= my_ap + 1
    THEN <<Head(avail)>> \o Affordable_Overdraw(Tail(avail), costs, my_ap)
  ELSE Affordable_Overdraw(Tail(avail), costs, my_ap)

\* the list comprehension keeping the actions the player can pay for
RECURSIVE Affordable(_, _, _)
Affordable(avail, costs, my_ap) ==
  IF avail = <<>> THEN <<>>
  ELSE IF costs[Head(avail)] <= my_ap
    THEN <<Head(avail)>> \o Affordable(Tail(avail), costs, my_ap)
  ELSE Affordable(Tail(avail), costs, my_ap)

\* get_available_actions without the action-point filter
get_available_actions_IgnoresAP(cfg, st, player_id) ==
  LET base_actions == cfg.actions
      my_debuff == IF player_id = 1 THEN st.p1_debuff ELSE st.p2_debuff
      a1 == IF cfg.debuffs /\ my_debuff # None
              THEN RemoveDebuffed(base_actions, my_debuff)
              ELSE base_actions
  IN  IF a1 = <<>> THEN <<>> ELSE a1

get_available_actions(cfg, st, player_id) ==
  LET base_actions == cfg.actions
      my_debuff == IF player_id = 1 THEN st.p1_debuff ELSE st.p2_debuff
      my_ap == IF player_id = 1 THEN st.p1_ap ELSE st.p2_ap
      a1 == IF cfg.debuffs /\ my_debuff # None
              THEN RemoveDebuffed(base_actions, my_debuff)
              ELSE base_actions
      a2 == IF UsesAP(cfg)
              THEN Affordable(a1, cfg.action_costs, Val(my_ap))
              ELSE a1
  IN  IF a2 = <<>> THEN <<>> ELSE a2

(* ----------------------------- resolve_turn ---------------------------- *)

\* DeductAP that charges player 1 only
DeductAP_P1Only(cfg, st, p1_action, p2_action) ==
  IF UsesAP(cfg)
    THEN [st EXCEPT !.p1_ap = Int1(Val(@) - cfg.action_costs[p1_action])]
    ELSE st

\* the AP deduction at the top of resolve_turn
DeductAP(cfg, st, p1_action, p2_action) ==
  IF UsesAP(cfg)
    THEN [st EXCEPT !.p1_ap = Int1(Val(@) - cfg.action_costs[p1_action]),
                    !.p2_ap = Int1(Val(@) - cfg.action_costs[p2_action])]
    ELSE st

\* outcome of a rule chain: the state with HP applied, the two new debuffs
\* and the damage flag
Outcome(st, d1, d2, dmg) ==
  [ st |-> st, new_p1_debuff |-> d1, new_p2_debuff |-> d2,
    damage_dealt_this_turn |-> dmg ]

\* HitP1 taking 2 HP
HitP1_Two(st) == [st EXCEPT !.p1_hp = @ - 2]

HitP1(st) == [st EXCEPT !.p1_hp = @ - 1]
HitP2(st) == [st EXCEPT !.p2_hp = @ - 1]

\* `if self.config['debuffs']: new_pX_debuff = d`
IfDebuffs(cfg, d) == IF cfg.debuffs THEN d ELSE None

\* NoKickRules with the full table's DEFEND-beats-FEINT row in place of the
\* reduced cycle's FEINT-beats-DEFEND row
NoKickRules_FullRow6(cfg, st, p1_action, p2_action) ==
  IF p1_action = "ATTACK" /\ p2_action = "FEINT"
    THEN Outcome(HitP2(st), None, None, TRUE)
  ELSE IF p2_action = "ATTACK" /\ p1_action = "FEINT"
    THEN Outcome(HitP1(st), None, None, TRUE)
  ELSE IF p1_action = "DEFEND" /\ p2_action = "ATTACK"
    THEN Outcome(st, None, IfDebuffs(cfg, "Cannot Attack"), FALSE)
  ELSE IF p2_action = "DEFEND" /\ p1_action = "ATTACK"
    THEN Outcome(st, IfDebuffs(cfg, "Cannot Attack"), None, FALSE)
  ELSE IF p1_action = "DEFEND" /\ p2_action = "FEINT"
    THEN Outcome(st, None, IfDebuffs(cfg, "Cannot Feint"), FALSE)
  ELSE IF p2_action = "DEFEND" /\ p1_action = "FEINT"
    THEN Outcome(st, IfDebuffs(cfg, "Cannot Feint"), None, FALSE)
  ELSE Outcome(st, None, None, FALSE)

\* the if/elif chain of the no_kick branch
NoKickRules(cfg, st, p1_action, p2_action) ==
  IF p1_action = "ATTACK" /\ p2_action = "FEINT"
    THEN Outcome(HitP2(st), None, None, TRUE)
  ELSE IF p2_action = "ATTACK" /\ p1_action = "FEINT"
    THEN Outcome(HitP1(st), None, None, TRUE)
  ELSE IF p1_action = "DEFEND" /\ p2_action = "ATTACK"
    THEN Outcome(st, None, IfDebuffs(cfg, "Cannot Attack"), FALSE)
  ELSE IF p2_action = "DEFEND" /\ p1_action = "ATTACK"
    THEN Outcome(st, IfDebuffs(cfg, "Cannot Attack"), None, FALSE)
  ELSE IF p1_action = "FEINT" /\ p2_action = "DEFEND"
    THEN Outcome(st, None, IfDebuffs(cfg, "Cannot Defend"), FALSE)
  ELSE IF p2_action = "FEINT" /\ p1_action = "DEFEND"
    THEN Outcome(st, IfDebuffs(cfg, "Cannot Defend"), None, FALSE)
  ELSE Outcome(st, None, None, FALSE)

\* FullRules with rules 1 to 4 only (rules 5 and 6 missing)
FullRules_FourRules(cfg, st, p1_action, p2_action) ==
  IF p1_action = "ATTACK" /\ p2_action = "FEINT"
    THEN Outcome(HitP2(st), None, None, TRUE)
  ELSE IF p2_action = "ATTACK" /\ p1_action = "FEINT"
    THEN Outcome(HitP1(st), None, None, TRUE)
  ELSE IF p1_action = "FEINT" /\ p2_action = "KICKS"
    THEN Outcome(st, None, IfDebuffs(cfg, "Cannot Kick"), FALSE)
  ELSE IF p2_action = "FEINT" /\ p1_action = "KICKS"
    THEN Outcome(st, IfDebuffs(cfg, "Cannot Kick"), None, FALSE)
  ELSE IF p1_action = "KICKS" /\ p2_action = "DEFEND"
    THEN Outcome(HitP2(st), None, None, TRUE)
  ELSE IF p2_action = "KICKS" /\ p1_action = "DEFEND"
    THEN Outcome(HitP1(st), None, None, TRUE)
  ELSE IF p1_action = "DEFEND" /\ p2_action = "ATTACK"
    THEN Outcome(st, None, IfDebuffs(cfg, "Cannot Attack"), FALSE)
  ELSE IF p2_action = "DEFEND" /\ p1_action = "ATTACK"
    THEN Outcome(st, IfDebuffs(cfg, "Cannot Attack"), None, FALSE)
  ELSE Outcome(st, None, None, FALSE)

\* FullRules in which two attacks hurt both players
FullRules_ClashHurtsBoth(cfg, st, p1_action, p2_action) ==
  IF p1_action = "ATTACK" /\ p2_action = "ATTACK"
    THEN Outcome(HitP1(HitP2(st)), None, None, TRUE)
  ELSE IF p1_action = "ATTACK" /\ p2_action = "FEINT"
    THEN Outcome(HitP2(st), None, None, TRUE)
  ELSE IF p2_action = "ATTACK" /\ p1_action = "FEINT"
    THEN Outcome(HitP1(st), None, None, TRUE)
  ELSE IF p1_action = "FEINT" /\ p2_action = "KICKS"
    THEN Outcome(st, None, IfDebuffs(cfg, "Cannot Kick"), FALSE)
  ELSE IF p2_action = "FEINT" /\ p1_action = "KICKS"
    THEN Outcome(st, IfDebuffs(cfg, "Cannot Kick"), None, FALSE)
  ELSE IF p1_action = "KICKS" /\ p2_action = "DEFEND"
    THEN Outcome(HitP2(st), None, None, TRUE)
  ELSE IF p2_action = "KICKS" /\ p1_action = "DEFEND"
    THEN Outcome(HitP1(st), None, None, TRUE)
  ELSE IF p1_action = "DEFEND" /\ p2_action = "ATTACK"
    THEN Outcome(st, None, IfDebuffs(cfg, "Cannot Attack"), FALSE)
  ELSE IF p2_action = "DEFEND" /\ p1_action = "ATTACK"
    THEN Outcome(st, IfDebuffs(cfg, "Cannot Attack"), None, FALSE)
  ELSE IF p1_action = "ATTACK" /\ p2_action = "KICKS"
    THEN Outcome(st, None, IfDebuffs(cfg, "Cannot Kick"), FALSE)
  ELSE IF p2_action = "ATTACK" /\ p1_action = "KICKS"
    THEN Outcome(st, IfDebuffs(cfg, "Cannot Kick"), None, FALSE)
  ELSE IF p1_action = "DEFEND" /\ p2_action = "FEINT"
    THEN Outcome(st, None, IfDebuffs(cfg, "Cannot Feint"), FALSE)
  ELSE IF p2_action = "DEFEND" /\ p1_action = "FEINT"
    THEN Outcome(st, IfDebuffs(cfg, "Cannot Feint"), None, FALSE)
  ELSE Outcome(st, None, None, FALSE)

\* FullRules in which a kick through a defence also forbids defending
FullRules_KickBreaksGuard(cfg, st, p1_action, p2_action) ==
  IF p1_action = "ATTACK" /\ p2_action = "FEINT"
    THEN Outcome(HitP2(st), None, None, TRUE)
  ELSE IF p2_action = "ATTACK" /\ p1_action = "FEINT"
    THEN Outcome(HitP1(st), None, None, TRUE)
  ELSE IF p1_action = "FEINT" /\ p2_action = "KICKS"
    THEN Outcome(st, None, IfDebuffs(cfg, "Cannot Kick"), FALSE)
  ELSE IF p2_action = "FEINT" /\ p1_action = "KICKS"
    THEN Outcome(st, IfDebuffs(cfg, "Cannot Kick"), None, FALSE)
  ELSE IF p1_action = "KICKS" /\ p2_action = "DEFEND"
    THEN Outcome(HitP2(st), None, IfDebuffs(cfg, "Cannot Defend"), TRUE)
  ELSE IF p2_action = "KICKS" /\ p1_action = "DEFEND"
    THEN Outcome(HitP1(st), IfDebuffs(cfg, "Cannot Defend"), None, TRUE)
  ELSE IF p1_action = "DEFEND" /\ p2_action = "ATTACK"
    THEN Outcome(st, None, IfDebuffs(cfg, "Cannot Attack"), FALSE)
  ELSE IF p2_action = "DEFEND" /\ p1_action = "ATTACK"
    THEN Outcome(st, IfDebuffs(cfg, "Cannot Attack"), None, FALSE)
  ELSE IF p1_action = "ATTACK" /\ p2_action = "KICKS"
    THEN Outcome(st, None, IfDebuffs(cfg, "Cannot Kick"), FALSE)
  ELSE IF p2_action = "ATTACK" /\ p1_action = "KICKS"
    THEN Outcome(st, IfDebuffs(cfg, "Cannot Kick"), None, FALSE)
  ELSE IF p1_action = "DEFEND" /\ p2_action = "FEINT"
    THEN Outcome(st, None, IfDebuffs(cfg, "Cannot Feint"), FALSE)
  ELSE IF p2_action = "DEFEND" /\ p1_action = "FEINT"
    THEN Outcome(st, IfDebuffs(cfg, "Cannot Feint"), None, FALSE)
  ELSE Outcome(st, None, None, FALSE)

\* the if/elif chain of the else branch (standard, first_blood, action_points)
FullRules(cfg, st, p1_action, p2_action) ==
  IF p1_action = "ATTACK" /\ p2_action = "FEINT"
    THEN Outcome(HitP2(st), None, None, TRUE)
  ELSE IF p2_action = "ATTACK" /\ p1_action = "FEINT"
    THEN Outcome(HitP1(st), None, None, TRUE)
  ELSE IF p1_action = "FEINT" /\ p2_action = "KICKS"
    THEN Outcome(st, None, IfDebuffs(cfg, "Cannot Kick"), FALSE)
  ELSE IF p2_action = "FEINT" /\ p1_action = "KICKS"
    THEN Outcome(st, IfDebuffs(cfg, "Cannot Kick"), None, FALSE)
  ELSE IF p1_action = "KICKS" /\ p2_action = "DEFEND"
    THEN Outcome(HitP2(st), None, None, TRUE)
  ELSE IF p2_action = "KICKS" /\ p1_action = "DEFEND"
    THEN Outcome(HitP1(st), None, None, TRUE)
  ELSE IF p1_action = "DEFEND" /\ p2_action = "ATTACK"
    THEN Outcome(st, None, IfDebuffs(cfg, "Cannot Attack"), FALSE)
  ELSE IF p2_action = "DEFEND" /\ p1_action = "ATTACK"
    THEN Outcome(st, IfDebuffs(cfg, "Cannot Attack"), None, FALSE)
  ELSE IF p1_action = "ATTACK" /\ p2_action = "KICKS"
    THEN Outcome(st, None, IfDebuffs(cfg, "Cannot Kick"), FALSE)
  ELSE IF p2_action = "ATTACK" /\ p1_action = "KICKS"
    THEN Outcome(st, IfDebuffs(cfg, "Cannot Kick"), None, FALSE)
  ELSE IF p1_action = "DEFEND" /\ p2_action = "FEINT"
    THEN Outcome(st, None, IfDebuffs(cfg, "Cannot Feint"), FALSE)
  ELSE IF p2_action = "DEFEND" /\ p1_action = "FEINT"
    THEN Outcome(st, IfDebuffs(cfg, "Cannot Feint"), None, FALSE)
  ELSE Outcome(st, None, None, FALSE)

\* UpdateDebuffs that keeps the old debuff when the turn computed none
UpdateDebuffs_Persist(cfg, st, new_p1_debuff, new_p2_debuff) ==
  IF cfg.debuffs
    THEN [st EXCEPT
            !.p1_debuff = IF new_p1_debuff = None THEN @ ELSE new_p1_debuff,
            !.p2_debuff = IF new_p2_debuff = None THEN @ ELSE new_p2_debuff]
    ELSE st

\* `if self.config['debuffs']:` overwrite both debuffs with the new ones
UpdateDebuffs(cfg, st, new_p1_debuff, new_p2_debuff) ==
  IF cfg.debuffs
    THEN [st EXCEPT !.p1_debuff = new_p1_debuff, !.p2_debuff = new_p2_debuff]
    ELSE st

\* MarkFirstDamage that stores this turn's damage flag
MarkFirstDamage_Toggle(st, damage_dealt_this_turn) ==
  [st EXCEPT !.first_damage_dealt = damage_dealt_this_turn]

\* MarkFirstDamage that sets the flag on every turn
MarkFirstDamage_Always(st, damage_dealt_this_turn) ==
  [st EXCEPT !.first_damage_dealt = TRUE]

\* `if damage_dealt_this_turn: self.state['first_damage_dealt'] = True`
MarkFirstDamage(st, damage_dealt_this_turn) ==
  IF damage_dealt_this_turn THEN [st EXCEPT !.first_damage_dealt = TRUE] ELSE st

\* HistoryEntry with the turn number from before the increment
HistoryEntry_StaleTurn(st, p1_action, p2_action) ==
  [ turn |-> st.turn - 1, p1_action |-> p1_action, p2_action |-> p2_action,
    p1_hp |-> st.p1_hp, p2_hp |-> st.p2_hp,
    p1_ap |-> st.p1_ap, p2_ap |-> st.p2_ap,
    p1_debuff |-> st.p1_debuff, p2_debuff |-> st.p2_debuff ]

\* the dictionary appended to game_history
HistoryEntry(st, p1_action, p2_action) ==
  [ turn |-> st.turn, p1_action |-> p1_action, p2_action |-> p2_action,
    p1_hp |-> st.p1_hp, p2_hp |-> st.p2_hp,
    p1_ap |-> st.p1_ap, p2_ap |-> st.p2_ap,
    p1_debuff |-> st.p1_debuff, p2_debuff |-> st.p2_debuff ]

\* FirstBloodCheck that never ends the match
FirstBloodCheck_Off(cfg, st) == ""

\* FirstBloodCheck with the two winners exchanged
FirstBloodCheck_Swapped(cfg, st) ==
  IF cfg.win_condition = "first_damage" /\ st.first_damage_dealt
    THEN IF st.p1_hp < 3 THEN "P1 Wins (First Blood)"
         ELSE IF st.p2_hp < 3 THEN "P2 Wins (First Blood)"
         ELSE ""
    ELSE ""

\* the first_blood block of _check_win_condition; "" when it falls through
FirstBloodCheck(cfg, st) ==
  IF cfg.win_condition = "first_damage" /\ st.first_damage_dealt
    THEN IF st.p1_hp < 3 THEN "P2 Wins (First Blood)"
         ELSE IF st.p2_hp < 3 THEN "P1 Wins (First Blood)"
         ELSE ""
    ELSE ""

\* OutOfAPCheck that lets a player with exactly 0 AP go on
OutOfAPCheck_BelowZero(cfg, st) ==
  IF cfg.win_condition = "ap_zero_or_hp_zero"
    THEN IF Val(st.p1_ap) < 0 /\ Val(st.p2_ap) < 0 THEN "Draw (Both Out of AP)"
         ELSE IF Val(st.p1_ap) < 0 THEN "P2 Wins (P1 Out of AP)"
         ELSE IF Val(st.p2_ap) < 0 THEN "P1 Wins (P2 Out of AP)"
         ELSE ""
    ELSE ""

\* the action-points block of _check_win_condition; "" when it falls through
OutOfAPCheck(cfg, st) ==
  IF cfg.win_condition = "ap_zero_or_hp_zero"
    THEN IF Val(st.p1_ap) <= 0 /\ Val(st.p2_ap) <= 0 THEN "Draw (Both Out of AP)"
         ELSE IF Val(st.p1_ap) <= 0 THEN "P2 Wins (P1 Out of AP)"
         ELSE IF Val(st.p2_ap) <= 0 THEN "P1 Wins (P2 Out of AP)"
         ELSE ""
    ELSE ""

\* HPCheck without the both-dead branch
HPCheck_NoDraw(st) ==
  IF st.p1_hp <= 0 THEN "P2 Wins"
  ELSE IF st.p2_hp <= 0 THEN "P1 Wins"
  ELSE "Continue"

\* the HP block of _check_win_condition and the final `return 'Continue'`
HPCheck(st) ==
  IF st.p1_hp <= 0 /\ st.p2_hp <= 0 THEN "Draw"
  ELSE IF st.p1_hp <= 0 THEN "P2 Wins"
  ELSE IF st.p2_hp <= 0 THEN "P1 Wins"
  ELSE "Continue"

\* check_win_condition with the HP block ahead of the action-points block
check_win_condition_HPFirst(cfg, st) ==
  IF FirstBloodCheck(cfg, st) # "" THEN FirstBloodCheck(cfg, st)
  ELSE IF HPCheck(st) # "Continue" THEN HPCheck(st)
  ELSE IF OutOfAPCheck(cfg, st) # "" THEN OutOfAPCheck(cfg, st)
  ELSE "Continue"

check_win_condition(cfg, st) ==
  IF FirstBloodCheck(cfg, st) # "" THEN FirstBloodCheck(cfg, st)
  ELSE IF OutOfAPCheck(cfg, st) # "" THEN OutOfAPCheck(cfg, st)
  ELSE HPCheck(st)

\* resolve_turn that logs the turn before the debuffs are updated
resolve_turn_LogsEarly(mode, st, hist, p1_action, p2_action) ==
  LET cfg == GAME_MODES[mode]
      s1 == DeductAP(cfg, st, p1_action, p2_action)
      r  == IF mode = "no_kick"
              THEN NoKickRules(cfg, s1, p1_action, p2_action)
              ELSE FullRules(cfg, s1, p1_action, p2_action)
      s2 == UpdateDebuffs(cfg, r.st, r.new_p1_debuff, r.new_p2_debuff)
      s3 == MarkFirstDamage(s2, r.damage_dealt_this_turn)
      s4 == [s3 EXCEPT !.turn = @ + 1]
      logged == [r.st EXCEPT !.turn = @ + 1]
  IN  [ state |-> s4,
        game_history |->
          Append(hist, HistoryEntry(logged, p1_action, p2_action)),
        status |-> check_win_condition(cfg, s4) ]

\* resolve_turn as a function of the match (mode, state, history) and the two
\* actions: the new state, the new history and the returned verdict
resolve_turn(mode, st, hist, p1_action, p2_action) ==
  LET cfg == GAME_MODES[mode]
      s1 == DeductAP(cfg, st, p1_action, p2_action)
      r  == IF mode = "no_kick"
              THEN NoKickRules(cfg, s1, p1_action, p2_action)
              ELSE FullRules(cfg, s1, p1_action, p2_action)
      s2 == UpdateDebuffs(cfg, r.st, r.new_p1_debuff, r.new_p2_debuff)
      s3 == MarkFirstDamage(s2, r.damage_dealt_this_turn)
      s4 == [s3 EXCEPT !.turn = @ + 1]
  IN  [ state |-> s4,
        game_history |-> Append(hist, HistoryEntry(s4, p1_action, p2_action)),
        status |-> check_win_condition(cfg, s4) ]

(* ------------------------------ parse_action --------------------------- *)
(* Text is a sequence of one-character strings; "\n" is the newline.       *)

LowerCase == <<"a", "b", "c", "d", "e", "f", "g", "h", "i", "j", "k", "l", "m", "n", "o", "p", "q", "r", "s", "t", "u", "v", "w", "x", "y", "z">>
UpperCase == <<"A", "B", "C", "D", "E", "F", "G", "H", "I", "J", "K", "L", "M", "N", "O", "P", "Q", "R", "S", "T", "U", "V", "W", "X", "Y", "Z">>

\* str.upper() on one character
UpperChar(c) ==
  IF \E i \in 1..Len(LowerCase) : LowerCase[i] = c
    THEN UpperCase[CHOOSE i \in 1..Len(LowerCase) : LowerCase[i] = c]
    ELSE c

\* str.upper()
Upper(text) == [i \in 1..Len(text) |-> UpperChar(text[i])]

\* the characters str.strip() removes
IsSpace(c) == c \in {" ", "\n", "\t"}

RECURSIVE LStrip(_)
LStrip(text) ==
  IF text # <<>> /\ IsSpace(Head(text)) THEN LStrip(Tail(text)) ELSE text

RECURSIVE RStrip(_)
RStrip(text) ==
  IF text # <<>> /\ IsSpace(text[Len(text)])
    THEN RStrip(SubSeq(text, 1, Len(text) - 1))
    ELSE text

\* str.strip()
Strip(text) == RStrip(LStrip(text))

\* str.split('\n'): the pieces between newlines (one empty piece for "")
RECURSIVE SplitLines(_)
SplitLines(text) ==
  IF \A i \in 1..Len(text) : text[i] # "\n"
    THEN <<text>>
    ELSE LET k == CHOOSE i \in 1..Len(text) :
                    text[i] = "\n" /\ \A j \in 1..(i - 1) : text[j] # "\n"
         IN  <<SubSeq(text, 1, k - 1)>>
               \o SplitLines(SubSeq(text, k + 1, Len(text)))

\* the characters of an action name
ActionText(a) ==
  CASE a = "ATTACK" -> <<"A", "T", "T", "A", "C", "K">>
    [] a = "DEFEND" -> <<"D", "E", "F", "E", "N", "D">>
    [] a = "KICKS"  -> <<"K", "I", "C", "K", "S">>
    [] a = "FEINT"  -> <<"F", "E", "I", "N", "T">>

\* `needle in hay` on strings
Contains(hay, needle) ==
  \E i \in 1..(Len(hay) - Len(needle) + 1) :
    SubSeq(hay, i, i + Len(needle) - 1) = needle

\* `for action in available_actions: if action in text_upper: return action`;
\* None when the loop ends without returning
RECURSIVE FirstActionIn(_, _)
FirstActionIn(available_actions, text_upper) ==
  IF available_actions = <<>> THEN None
  ELSE IF Contains(text_upper, ActionText(Head(available_actions)))
    THEN Head(available_actions)
  ELSE FirstActionIn(Tail(available_actions), text_upper)

\* the scan over the lines taken from the first line to the last
RECURSIVE ScanReversed_TopDown(_, _)
ScanReversed_TopDown(lines, available_actions) ==
  IF lines = <<>> THEN None
  ELSE LET found == FirstActionIn(available_actions, Upper(lines[1]))
       IN  IF found # None THEN found
           ELSE ScanReversed_TopDown(Tail(lines), available_actions)

\* `for line in reversed(lines):` with the inner loop over the actions
RECURSIVE ScanReversed(_, _)
ScanReversed(lines, available_actions) ==
  IF lines = <<>> THEN None
  ELSE LET found == FirstActionIn(available_actions, Upper(lines[Len(lines)]))
       IN  IF found # None THEN found
           ELSE ScanReversed(SubSeq(lines, 1, Len(lines) - 1), available_actions)

parse_action_DefaultDefend(model_output, available_actions) ==
  LET lines == SplitLines(Strip(model_output))
      bottom_up == ScanReversed(lines, available_actions)
      forward == FirstActionIn(available_actions, Upper(model_output))
  IN  IF bottom_up # None THEN bottom_up
      ELSE IF forward # None THEN forward
      ELSE "DEFEND"

parse_action(model_output, available_actions) ==
  LET best_action == IF available_actions # <<>>
                       THEN available_actions[1] ELSE "DEFEND"
      lines == SplitLines(Strip(model_output))
      bottom_up == ScanReversed(lines, available_actions)
      forward == FirstActionIn(available_actions, Upper(model_output))
  IN  IF bottom_up # None THEN bottom_up
      ELSE IF forward # None THEN forward
      ELSE best_action

(* ------------------------------ operations ----------------------------- *)

\* the record of the last operation on the match: its name, its arguments,
\* the state and history it started from, what it returned, and n, the
\* number of resolve_turn calls since the match was set up or reset
Call(op, player_id, p1_action, p2_action, pre, pre_history, status, actions, n) ==
  [ op |-> op, player_id |-> player_id,
    p1_action |-> p1_action, p2_action |-> p2_action,
    pre |-> pre, pre_history |-> pre_history,
    status |-> status, actions |-> actions, n |-> n ]

\* no caller is modelled: the methods are called in any order
NoRun == [pc |-> "none"]

\* FencingTask(game_mode) for one of the four mode names
Init ==
  /\ game_mode \in Modes
  /\ state = InitialState(config)
  /\ game_history = <<>>
  /\ call = Call("__init__", 0, None, None, state, game_history, None, <<>>, 0)
  /\ run = NoRun

\* task.resolve_turn(p1_action, p2_action): no validation of the two actions
ResolveTurnCall(p1_action, p2_action) ==
  LET r == resolve_turn(game_mode, state, game_history, p1_action, p2_action)
  IN  /\ state' = r.state
      /\ game_history' = r.game_history
      /\ call' = Call("resolve_turn", 0, p1_action, p2_action,
                      state, game_history, r.status, <<>>, call.n + 1)
      /\ UNCHANGED game_mode

ResolveTurn ==
  /\ call.n < MaxTurns
  /\ \E p1_action \in Actions, p2_action \in Actions :
        ResolveTurnCall(p1_action, p2_action)
  /\ UNCHANGED run

\* task.get_available_actions(player_id): a query, the match is unchanged
GetAvailableActionsCall(player_id) ==
  /\ call' = Call("get_available_actions", player_id, None, None,
                  state, game_history, None,
                  get_available_actions(config, state, player_id), call.n)
  /\ UNCHANGED <<game_mode, state, game_history>>

GetAvailableActions ==
  \E player_id \in Players :
    /\ GetAvailableActionsCall(player_id)
    /\ UNCHANGED run

\* reset() that keeps the first-damage flag of the match it resets
Reset_KeepsFirstDamage ==
  /\ state' = [InitialState(config) EXCEPT
                 !.first_damage_dealt = state.first_damage_dealt]
  /\ game_history' = <<>>
  /\ call' = Call("reset", 0, None, None, state, <<>>, None, <<>>, 0)
  /\ UNCHANGED <<game_mode, run>>

\* task.reset()
Reset ==
  /\ state' = InitialState(config)
  /\ game_history' = <<>>
  /\ call' = Call("reset", 0, None, None, state, <<>>, None, <<>>, 0)
  /\ UNCHANGED <<game_mode, run>>

Next == ResolveTurn \/ GetAvailableActions \/ Reset

Spec == Init /\ [][Next]_vars

(* ------------------- matches that are already under way ---------------- *)

\* the match after the calls resolve_turn(pairs[1]), ..., resolve_turn(pairs[n])
\* on a freshly constructed FencingTask(mode)
RECURSIVE Replay(_, _)
Replay(mode, pairs) ==
  IF pairs = <<>>
    THEN [ state |-> InitialState(GAME_MODES[mode]), game_history |-> <<>>,
           status |-> None ]
    ELSE LET prev == Replay(mode, SubSeq(pairs, 1, Len(pairs) - 1))
             last == pairs[Len(pairs)]
         IN  resolve_turn(mode, prev.state, prev.game_history, last[1], last[2])

\* an opening: lost2 turns in which player 1 hits, lost1 turns in which
\* player 2 hits, then at most one further turn with any pair of actions
Opening(lost1, lost2, last) ==
  [i \in 1..lost2 |-> <<"ATTACK", "FEINT">>]
    \o [i \in 1..lost1 |-> <<"FEINT", "ATTACK">>] \o last

LastTurns == {<<>>} \cup { <<<<a, b>>>> : a \in Actions, b \in Actions }

\* a match of any mode after one of the openings
InitReplay ==
  /\ game_mode \in Modes
  /\ \E lost1 \in 0..MaxLost, lost2 \in 0..MaxLost, last \in LastTurns :
       LET m == Replay(game_mode, Opening(lost1, lost2, last))
       IN  /\ state = m.state
           /\ game_history = m.game_history
  /\ call = Call("__init__", 0, None, None, state, game_history, None, <<>>, 0)
  /\ run = NoRun

ResolveTurnReplay ==
  /\ call.n < MaxReplayTurns
  /\ \E p1_action \in Actions, p2_action \in Actions :
        ResolveTurnCall(p1_action, p2_action)
  /\ UNCHANGED run

NextReplay == ResolveTurnReplay \/ GetAvailableActions

SpecReplay == InitReplay /\ [][NextReplay]_vars

(* ------------------ matches played with available actions ------------- *)

\* resolve_turn calls allowed in SpecLegal; in action_points mode the action
\* points run out first
LegalTurns ==
  IF game_mode = "action_points" THEN MaxAPTurnLimit ELSE MaxLegalTurns

\* task.resolve_turn(p1_action, p2_action) with actions that
\* get_available_actions lists for the two players
ResolveTurnLegal ==
  /\ call.n < LegalTurns
  /\ \E p1_action \in Actions, p2_action \in Actions :
       /\ InList(p1_action, get_available_actions(config, state, 1))
       /\ InList(p2_action, get_available_actions(config, state, 2))
       /\ ResolveTurnCall(p1_action, p2_action)
  /\ UNCHANGED run

NextLegal == ResolveTurnLegal \/ GetAvailableActions

SpecLegal == Init /\ [][NextLegal]_vars

(* ----------------------- parse_action on its own ----------------------- *)

\* no FencingTask exists (yet)
NoTask ==
  /\ game_mode = None
  /\ state = None
  /\ game_history = <<>>
  /\ call = Call("none", 0, None, None, None, <<>>, None, <<>>, 0)

\* lines a model may answer with
LineAttack == <<"I", " ", "a", "t", "t", "a", "c", "k">>
LineFeintDefend == <<"F", "E", "I", "N", "T", ",", " ", "n", "o", "t", " ", "D", "E", "F", "E", "N", "D">>
LineKicks == <<" ", "K", "i", "c", "k", "s", "!", " ">>
LineEmpty == <<>>
LineNoIdea == <<"n", "o", " ", "i", "d", "e", "a">>
LineCounter == <<"c", "o", "u", "n", "t", "e", "r", "a", "t", "t", "a", "c", "k", "s">>
LineKick == <<"k", "i", "c", "k", " ", "h", "i", "m">>
LineFeint == <<"f", "e", "i", "n", "t", ".">>

AnswerLines ==
  { LineAttack, LineFeintDefend, LineKicks, LineEmpty, LineNoIdea,
    LineCounter, LineKick, LineFeint }

\* '\n'.join(lines)
RECURSIVE JoinLines(_)
JoinLines(lines) ==
  IF lines = <<>> THEN <<>>
  ELSE IF Len(lines) = 1 THEN lines[1]
  ELSE lines[1] \o <<"\n">> \o JoinLines(Tail(lines))

\* the model answers of at most MaxLines lines
ModelOutputs ==
  { JoinLines(ls) : ls \in UNION { [1..n -> AnswerLines] : n \in 0..MaxLines } }

\* the non-empty lists get_available_actions returns in the first three turns
\* of a match
AvailableLists ==
  { get_available_actions(GAME_MODES[m], Replay(m, pairs).state, p) :
      m \in Modes, p \in Players,
      pairs \in UNION { [1..n -> Actions \X Actions] : n \in 0..2 } }
    \ {<<>>}

\* a call parse_action(model_output, available_actions) about to be made
InitParse ==
  /\ NoTask
  /\ \E model_output \in ModelOutputs, available_actions \in AvailableLists :
       run = [ pc |-> "parse_action", model_output |-> model_output,
               available_actions |-> available_actions, action |-> None ]

\* the call returns
ParseAction ==
  /\ run.pc = "parse_action"
  /\ run' = [run EXCEPT !.pc = "returned",
               !.action = parse_action(run.model_output, run.available_actions)]
  /\ UNCHANGED <<game_mode, state, game_history, call>>

NextParse == ParseAction

SpecParse == InitParse /\ [][NextParse]_vars

(* ------------------------------- run_game ------------------------------ *)

\* NewTask that plays standard when the name is unknown
NewTask_DefaultStandard(name) ==
  IF name \in DOMAIN GAME_MODES
    THEN [ ok |-> TRUE, game_mode |-> name,
           state |-> InitialState(GAME_MODES[name]), game_history |-> <<>> ]
    ELSE [ ok |-> TRUE, game_mode |-> "standard",
           state |-> InitialState(GAME_MODES["standard"]),
           game_history |-> <<>> ]

\* FencingTask(game_mode=name): ok is false when ValueError is raised
NewTask(name) ==
  IF name \in DOMAIN GAME_MODES
    THEN [ ok |-> TRUE, game_mode |-> name,
           state |-> InitialState(GAME_MODES[name]), game_history |-> <<>> ]
    ELSE [ ok |-> FALSE, game_mode |-> None, state |-> None,
           game_history |-> <<>> ]

\* get_state_string and propose_prompt_wrap: the values the prompt text is
\* formatted from
propose_prompt_wrap(mode, st, player_id) ==
  LET cfg == GAME_MODES[mode]
      my_debuff == IF player_id = 1 THEN st.p1_debuff ELSE st.p2_debuff
      with_ap == cfg.action_points # NoInt
  IN  [ player_id |-> player_id, game_mode |-> mode, turn |-> st.turn,
        my_hp |-> IF player_id = 1 THEN st.p1_hp ELSE st.p2_hp,
        op_hp |-> IF player_id = 1 THEN st.p2_hp ELSE st.p1_hp,
        my_ap |-> IF ~with_ap THEN NoInt
                  ELSE IF player_id = 1 THEN st.p1_ap ELSE st.p2_ap,
        op_ap |-> IF ~with_ap THEN NoInt
                  ELSE IF player_id = 1 THEN st.p2_ap ELSE st.p1_ap,
        action_costs |-> IF with_ap THEN cfg.action_costs ELSE <<>>,
        status |-> IF my_debuff # None THEN my_debuff ELSE "Normal",
        available_actions |-> get_available_actions(cfg, st, player_id) ]

\* a local of run_game that has no value (yet)
NoPrompt == [ player_id |-> 0 ]
NoOutput == <<>>

\* f"ERROR: {str(e)}", up to the message of the exception
ErrorText == <<"E", "R", "R", "O", "R", ":", " ">>

\* what a model call does: it returns a text or raises an exception
RunTexts ==
  { LineAttack, LineFeintDefend, LineKicks, LineNoIdea,
    JoinLines(<<LineCounter, LineFeint>>) }

ModelAnswers ==
  { [raised |-> FALSE, text |-> t] : t \in RunTexts }
    \cup { [raised |-> TRUE, text |-> <<>>] }

\* the answers of a backend (--model_p1, --model_p2): "any" stands for a
\* model that may return every text or raise, "duellist" for one that always
\* answers with an attack or a feint
ModelAnswersOf(backend) ==
  IF backend = "duellist"
    THEN { [raised |-> FALSE, text |-> t] :
             t \in {LineAttack, JoinLines(<<LineCounter, LineFeint>>)} }
    ELSE ModelAnswers

\* the fallback that plays ATTACK whatever the player may do
Ask_FallbackAttack(answer, actions) ==
  IF answer.raised
    THEN [ model_output |-> ErrorText, action |-> "ATTACK" ]
    ELSE [ model_output |-> answer.text,
           action |-> parse_action(answer.text, actions) ]

\* the try/except around one model call and parse_action
Ask(answer, actions) ==
  IF answer.raised
    THEN [ model_output |-> ErrorText, action |-> actions[1] ]
    ELSE [ model_output |-> answer.text,
           action |-> parse_action(answer.text, actions) ]

\* the --game_mode values: the four modes and two names that are none
ModeNames == Modes \cup {"Standard", "ap"}

\* the --max_turns values tried with a mode name
TurnLimits(name) ==
  (0..MaxTurnLimit)
    \cup (IF name = "action_points" THEN {MaxAPTurnLimit} ELSE {})

\* run_game(args) is entered
InitRun ==
  /\ NoTask
  /\ \E name \in ModeNames :
     \E max_turns \in TurnLimits(name) :
       run = [ pc |-> "construct",
               args |-> [game_mode |-> name, max_turns |-> max_turns,
                         model_p1 |-> "any", model_p2 |-> "any"],
               game_log |-> <<>>, game_status |-> None, turn_number |-> 0,
               turn_start |-> None,
               p1_actions |-> <<>>, p1_prompt |-> NoPrompt,
               p1_model_output |-> NoOutput, p1_action |-> None,
               p2_actions |-> <<>>, p2_prompt |-> NoPrompt,
               p2_model_output |-> NoOutput, p2_action |-> None ]

\* task = FencingTask(game_mode=args.game_mode) and the three locals; the
\* ValueError of an unknown name leaves run_game
Construct ==
  /\ run.pc = "construct"
  /\ LET task == NewTask(run.args.game_mode)
     IN  IF task.ok
           THEN /\ game_mode' = task.game_mode
                /\ state' = task.state
                /\ game_history' = task.game_history
                /\ call' = Call("__init__", 0, None, None, task.state,
                                task.game_history, None, <<>>, 0)
                /\ run' = [run EXCEPT !.pc = "p1_available",
                             !.game_status = "Continue", !.turn_number = 1]
           ELSE /\ run' = [run EXCEPT !.pc = "raised"]
                /\ UNCHANGED <<game_mode, state, game_history, call>>

\* the top of the loop body: player 1's actions, the emptiness check and the
\* prompt. turn_start remembers the state the turn starts from; the model
\* outputs of the turn before are not read again and are dropped here.
P1Available ==
  /\ run.pc = "p1_available"
  /\ GetAvailableActionsCall(1)
  /\ LET p1_actions == get_available_actions(config, state, 1)
     IN  run' =
           IF p1_actions = <<>>
             THEN [run EXCEPT !.pc = "done", !.turn_start = state,
                     !.p1_actions = p1_actions,
                     !.p1_model_output = NoOutput,
                     !.p2_model_output = NoOutput,
                     !.game_status = "P2 Wins (P1 No Valid Actions)"]
             ELSE [run EXCEPT !.pc = "p1_model", !.turn_start = state,
                     !.p1_actions = p1_actions,
                     !.p1_model_output = NoOutput,
                     !.p2_model_output = NoOutput,
                     !.p1_prompt = propose_prompt_wrap(game_mode, state, 1)]

\* P1Model that makes player 1 pay for the action as soon as it is chosen
P1Model_PaysAtOnce ==
  /\ run.pc = "p1_model"
  /\ \E answer \in ModelAnswersOf(run.args.model_p1) :
       LET r == Ask(answer, run.p1_actions)
       IN  /\ run' = [run EXCEPT !.pc = "p2_available",
                        !.p1_model_output = r.model_output,
                        !.p1_action = r.action]
           /\ state' = IF UsesAP(config)
                         THEN [state EXCEPT !.p1_ap =
                                Int1(Val(@) - config.action_costs[r.action])]
                         ELSE state
  /\ UNCHANGED <<game_mode, game_history, call>>

\* player 1's model is asked and its answer parsed
P1Model ==
  /\ run.pc = "p1_model"
  /\ \E answer \in ModelAnswersOf(run.args.model_p1) :
       LET r == Ask(answer, run.p1_actions)
       IN  run' = [run EXCEPT !.pc = "p2_available",
                     !.p1_model_output = r.model_output,
                     !.p1_action = r.action]
  /\ UNCHANGED <<game_mode, state, game_history, call>>

\* player 2's actions, the emptiness check and the prompt
P2Available ==
  /\ run.pc = "p2_available"
  /\ GetAvailableActionsCall(2)
  /\ LET p2_actions == get_available_actions(config, state, 2)
     IN  run' =
           IF p2_actions = <<>>
             THEN [run EXCEPT !.pc = "done", !.p2_actions = p2_actions,
                     !.game_status = "P1 Wins (P2 No Valid Actions)"]
             ELSE [run EXCEPT !.pc = "p2_model", !.p2_actions = p2_actions,
                     !.p2_prompt = propose_prompt_wrap(game_mode, state, 2)]

\* player 2's model is asked and its answer parsed
P2Model ==
  /\ run.pc = "p2_model"
  /\ \E answer \in ModelAnswersOf(run.args.model_p2) :
       LET r == Ask(answer, run.p2_actions)
       IN  run' = [run EXCEPT !.pc = "resolve",
                     !.p2_model_output = r.model_output,
                     !.p2_action = r.action]
  /\ UNCHANGED <<game_mode, state, game_history, call>>

\* AfterTurn that stops one turn late
AfterTurn_OneTurnLate(r, game_status, state_after_turn) ==
  LET turn_data ==
        [ turn |-> r.turn_number,
          p1_action |-> r.p1_action,
          p1_available_actions |-> r.p1_actions,
          p2_action |-> r.p2_action,
          p2_available_actions |-> r.p2_actions,
          game_status |-> game_status,
          state_after_turn |-> state_after_turn ]
      turn_number == r.turn_number + 1
      limit == turn_number > r.args.max_turns + 1
  IN  [r EXCEPT !.game_log = Append(@, turn_data),
         !.turn_number = turn_number,
         !.game_status = IF limit THEN "Draw (Turn Limit)" ELSE game_status,
         !.pc = IF limit \/ game_status # "Continue"
                  THEN "done" ELSE "p1_available"]

\* the rest of the loop body after resolve_turn returned game_status: the log
\* entry (without the prompt and answer texts), the turn count, the safety
\* stop and the loop condition
AfterTurn(r, game_status, state_after_turn) ==
  LET turn_data ==
        [ turn |-> r.turn_number,
          p1_action |-> r.p1_action,
          p1_available_actions |-> r.p1_actions,
          p2_action |-> r.p2_action,
          p2_available_actions |-> r.p2_actions,
          game_status |-> game_status,
          state_after_turn |-> state_after_turn ]
      turn_number == r.turn_number + 1
      limit == turn_number > r.args.max_turns
  IN  [r EXCEPT !.game_log = Append(@, turn_data),
         !.turn_number = turn_number,
         !.game_status = IF limit THEN "Draw (Turn Limit)" ELSE game_status,
         !.pc = IF limit \/ game_status # "Continue"
                  THEN "done" ELSE "p1_available"]

\* game_status = task.resolve_turn(p1_action, p2_action) and the rest of the
\* loop body
Resolve ==
  /\ run.pc = "resolve"
  /\ ResolveTurnCall(run.p1_action, run.p2_action)
  /\ run' = AfterTurn(run, call'.status, state')

\* game_summary that reports the number of the turn that would come next
game_summary_CountsNextTurn(r, task_game_history) ==
  [ game_mode |-> r.args.game_mode,
    max_turns |-> r.args.max_turns,
    result |-> r.game_status,
    total_turns |-> r.turn_number,
    game_history |-> task_game_history,
    turn_by_turn_log |-> r.game_log ]

\* the dictionary run_game builds after the loop, saves and returns, without
\* the descriptive entries (mode description, model names, temperature,
\* winner, token usage)
game_summary(r, task_game_history) ==
  [ game_mode |-> r.args.game_mode,
    max_turns |-> r.args.max_turns,
    result |-> r.game_status,
    total_turns |-> r.turn_number - 1,
    game_history |-> task_game_history,
    turn_by_turn_log |-> r.game_log ]

NextRun ==
  Construct \/ P1Available \/ P1Model \/ P2Available \/ P2Model \/ Resolve

SpecRun == InitRun /\ [][NextRun]_vars

\* run_game(args) is entered for a long match of a duellist against any
\* model, in a mode where only lost HP ends a match
InitRunDuel ==
  /\ NoTask
  /\ \E name \in {"standard", "no_kick"} :
       run = [ pc |-> "construct",
               args |-> [game_mode |-> name, max_turns |-> MaxDuelTurnLimit,
                         model_p1 |-> "duellist", model_p2 |-> "any"],
               game_log |-> <<>>, game_status |-> None, turn_number |-> 0,
               turn_start |-> None,
               p1_actions |-> <<>>, p1_prompt |-> NoPrompt,
               p1_model_output |-> NoOutput, p1_action |-> None,
               p2_actions |-> <<>>, p2_prompt |-> NoPrompt,
               p2_model_output |-> NoOutput, p2_action |-> None ]

SpecRunDuel == InitRunDuel /\ [][NextRun]_vars

\* every statement that can run does run: run_game is one sequential
\* program, and a model call returns or raises
SpecRunFair == SpecRun /\ WF_vars(NextRun)

(* ------------------------ two matches side by side --------------------- *)
(* run holds the class attribute GAME_MODES, which every FencingTask refers *)
(* to through self.config and self.base_actions, and two FencingTask        *)
(* objects, each with its own state dictionary and history list.            *)

\* get_available_actions that works on self.base_actions itself
AvailableActionsOn_NoCopy(modes, task, player_id) ==
  LET cfg == modes[task.game_mode]
      my_debuff == IF player_id = 1 THEN task.state.p1_debuff
                   ELSE task.state.p2_debuff
      removed == IF cfg.debuffs /\ my_debuff # None
                   THEN RemoveDebuffed(cfg.actions, my_debuff)
                   ELSE cfg.actions
  IN  [ result |-> get_available_actions(cfg, task.state, player_id),
        GAME_MODES |-> [modes EXCEPT ![task.game_mode].actions = removed] ]

\* get_available_actions on a task whose config is modes[task.game_mode]:
\* the returned list and the class attribute afterwards. The method works
\* on list(self.base_actions), a copy, so the attribute is as before.
AvailableActionsOn(modes, task, player_id) ==
  [ result |-> get_available_actions(modes[task.game_mode], task.state,
                                     player_id),
    GAME_MODES |-> modes ]

\* a FencingTask object
Task(mode, st, hist) ==
  [ game_mode |-> mode, state |-> st, game_history |-> hist ]

Matches == {1, 2}

\* two matches have been constructed, of any two modes
InitTwo ==
  /\ NoTask
  /\ \E m1 \in Modes, m2 \in Modes :
       run = [ pc |-> "matches", GAME_MODES |-> GAME_MODES,
               tasks |-> << Task(m1, InitialState(GAME_MODES[m1]), <<>>),
                            Task(m2, InitialState(GAME_MODES[m2]), <<>>) >>,
               last |-> [op |-> "__init__", task |-> 2, actions |-> <<>>],
               n |-> 0 ]

\* tasks[t].resolve_turn(p1_action, p2_action)
ResolveTurnOn ==
  /\ run.pc = "matches" /\ run.n < MaxTwoTurns
  /\ \E t \in Matches, p1_action \in Actions, p2_action \in Actions :
       LET task == run.tasks[t]
           r == resolve_turn(task.game_mode, task.state, task.game_history,
                             p1_action, p2_action)
       IN  run' = [run EXCEPT
                     !.tasks[t] = Task(task.game_mode, r.state, r.game_history),
                     !.last = [op |-> "resolve_turn", task |-> t,
                               actions |-> <<>>],
                     !.n = @ + 1]
  /\ UNCHANGED <<game_mode, state, game_history, call>>

\* tasks[t].get_available_actions(player_id)
GetAvailableActionsOn ==
  /\ run.pc = "matches"
  /\ \E t \in Matches, player_id \in Players :
       LET r == AvailableActionsOn(run.GAME_MODES, run.tasks[t], player_id)
       IN  run' = [run EXCEPT
                     !.GAME_MODES = r.GAME_MODES,
                     !.last = [op |-> "get_available_actions", task |-> t,
                               actions |-> r.result]]
  /\ UNCHANGED <<game_mode, state, game_history, call>>

\* tasks[t].reset()
ResetOn ==
  /\ run.pc = "matches"
  /\ \E t \in Matches :
       LET task == run.tasks[t]
       IN  run' = [run EXCEPT
                     !.tasks[t] =
                        Task(task.game_mode,
                             InitialState(run.GAME_MODES[task.game_mode]),
                             <<>>),
                     !.last = [op |-> "reset", task |-> t, actions |-> <<>>]]
  /\ UNCHANGED <<game_mode, state, game_history, call>>

NextTwo == ResolveTurnOn \/ GetAvailableActionsOn \/ ResetOn

SpecTwo == InitTwo /\ [][NextTwo]_vars

(* ======================================================================= *)
(* Properties                                                              *)
(* ======================================================================= *)

\* the last operation was a resolve_turn call
LastResolve == call.op = "resolve_turn"

ActionOf(p) == IF p = 1 THEN call.p1_action ELSE call.p2_action
\* HP the last resolve_turn took from player p
Lost(p) ==
  IF p = 1 THEN call.pre.p1_hp - state.p1_hp ELSE call.pre.p2_hp - state.p2_hp
DebuffOf(p) == IF p = 1 THEN state.p1_debuff ELSE state.p2_debuff
DebuffBefore(p) == IF p = 1 THEN call.pre.p1_debuff ELSE call.pre.p2_debuff

\* the rule table of the specification, section 4.3
SixRows ==
  { [winner |-> "ATTACK", loser |-> "FEINT",  hp |-> 1, debuff |-> None],
    [winner |-> "KICKS",  loser |-> "DEFEND", hp |-> 1, debuff |-> None],
    [winner |-> "FEINT",  loser |-> "KICKS",  hp |-> 0, debuff |-> "Cannot Kick"],
    [winner |-> "DEFEND", loser |-> "ATTACK", hp |-> 0, debuff |-> "Cannot Attack"],
    [winner |-> "ATTACK", loser |-> "KICKS",  hp |-> 0, debuff |-> "Cannot Kick"],
    [winner |-> "DEFEND", loser |-> "FEINT",  hp |-> 0, debuff |-> "Cannot Feint"] }

\* the reduced rule set of no_kick mode
ThreeRows ==
  { [winner |-> "ATTACK", loser |-> "FEINT",  hp |-> 1, debuff |-> None],
    [winner |-> "DEFEND", loser |-> "ATTACK", hp |-> 0, debuff |-> "Cannot Attack"],
    [winner |-> "FEINT",  loser |-> "DEFEND", hp |-> 0, debuff |-> "Cannot Defend"] }

\* the rows of a table that apply to the unordered pair {a, b}
RowsFor(rows, a, b) ==
  { r \in rows : \/ (r.winner = a /\ r.loser = b)
                 \/ (r.winner = b /\ r.loser = a) }

\* the last resolve_turn did what row r says, to the player who played the
\* row's losing action, and nothing to the other player
FollowsRow(r) ==
  \E w \in Players, l \in Players :
    /\ w # l
    /\ ActionOf(w) = r.winner /\ ActionOf(l) = r.loser
    /\ Lost(l) = r.hp /\ DebuffOf(l) = r.debuff
    /\ Lost(w) = 0 /\ DebuffOf(w) = None

FullTableDebuffModes == {"standard", "first_blood"}

\* the last call with its two actions exchanged, from the same pre-turn match
SwappedCall ==
  resolve_turn(game_mode, call.pre, call.pre_history,
               call.p2_action, call.p1_action)

\* C1: in standard and first_blood mode, for distinct actions (a, b) and any
\* pre-turn state, resolve_turn(a, b) and resolve_turn(b, a) are mirrored: the
\* HP loss and the new debuff one call gives player 2 the other call gives
\* player 1, and the other way round.
C1_MirroredResults ==
  (LastResolve /\ game_mode \in FullTableDebuffModes
     /\ call.p1_action # call.p2_action)
  => /\ Lost(2) = call.pre.p1_hp - SwappedCall.state.p1_hp
     /\ Lost(1) = call.pre.p2_hp - SwappedCall.state.p2_hp
     /\ DebuffOf(2) = SwappedCall.state.p1_debuff
     /\ DebuffOf(1) = SwappedCall.state.p2_debuff

\* a KICKS-vs-DEFEND turn from a state in which the winner held a debuff and
\* the players' HP differ: the loser lost 1 HP
C1_Witness ==
  /\ LastResolve /\ game_mode = "standard"
  /\ call.p1_action = "DEFEND" /\ call.p2_action = "KICKS"
  /\ call.pre.p2_debuff = "Cannot Attack"
  /\ call.pre.p1_hp # call.pre.p2_hp
  /\ Lost(1) = 1 /\ Lost(2) = 0

\* C2: in standard and first_blood mode every pair of distinct actions is
\* resolved by exactly one of the six rows: the loser loses exactly 1 HP and
\* gets no debuff (ATTACK/FEINT, KICKS/DEFEND) or keeps its HP and gets the
\* row's debuff; the winner's HP is unchanged and the winner has no debuff.
C2_SixRowTable ==
  (LastResolve /\ game_mode \in FullTableDebuffModes
     /\ call.p1_action # call.p2_action)
  => \E r \in SixRows :
       /\ RowsFor(SixRows, call.p1_action, call.p2_action) = {r}
       /\ FollowsRow(r)

\* DEFEND beat FEINT: the feinter (player 1) holds Cannot Feint
C2_Witness ==
  /\ LastResolve /\ game_mode = "first_blood"
  /\ call.p1_action = "FEINT" /\ call.p2_action = "DEFEND"
  /\ state.p1_debuff = "Cannot Feint" /\ state.p2_debuff = None
  /\ Lost(1) = 0 /\ Lost(2) = 0

NoKickActions == {"ATTACK", "DEFEND", "FEINT"}

\* C3: in no_kick mode every pair of distinct actions from ATTACK, DEFEND,
\* FEINT is resolved by exactly one row of the reduced cycle: ATTACK vs FEINT
\* costs the feinter 1 HP, DEFEND vs ATTACK gives the attacker Cannot Attack,
\* FEINT vs DEFEND gives the defender Cannot Defend.
C3_NoKickCycle ==
  (LastResolve /\ game_mode = "no_kick"
     /\ call.p1_action \in NoKickActions /\ call.p2_action \in NoKickActions
     /\ call.p1_action # call.p2_action)
  => \E r \in ThreeRows :
       /\ RowsFor(ThreeRows, call.p1_action, call.p2_action) = {r}
       /\ FollowsRow(r)

\* FEINT beat DEFEND in no_kick mode: the defender holds Cannot Defend
C3_Witness ==
  /\ LastResolve /\ game_mode = "no_kick"
  /\ call.p1_action = "DEFEND" /\ call.p2_action = "FEINT"
  /\ state.p1_debuff = "Cannot Defend" /\ state.p2_debuff = None
  /\ Lost(1) = 0 /\ Lost(2) = 0

\* C4: for every action a that is legal in the mode, resolve_turn(a, a)
\* changes no HP, leaves both debuffs None and does not change
\* first_damage_dealt.
C4_IdenticalActionsNoOp ==
  (LastResolve /\ call.p1_action = call.p2_action
     /\ InList(call.p1_action, config.actions))
  => /\ Lost(1) = 0 /\ Lost(2) = 0
     /\ state.p1_debuff = None /\ state.p2_debuff = None
     /\ state.first_damage_dealt = call.pre.first_damage_dealt

\* KICKS vs KICKS in a match without damage so far, from a state in which a
\* player held a debuff
C4_Witness ==
  /\ LastResolve /\ game_mode = "standard"
  /\ call.p1_action = "KICKS" /\ call.p2_action = "KICKS"
  /\ call.pre.p1_debuff = "Cannot Kick"
  /\ ~call.pre.first_damage_dealt /\ ~state.first_damage_dealt
  /\ state.p1_debuff = None

\* the last resolve_turn was given an action that get_available_actions did
\* not offer that player in the pre-turn state
IllegalCall ==
  /\ LastResolve
  /\ \/ ~InList(call.p1_action, get_available_actions(config, call.pre, 1))
     \/ ~InList(call.p2_action, get_available_actions(config, call.pre, 2))

\* C5: resolve_turn rejects an action that is not available to its player at
\* call time and leaves HP, AP, debuffs, turn counter and history unchanged.
C5_RejectsIllegalAction ==
  IllegalCall => (state = call.pre /\ game_history = call.pre_history)

\* the action a debuff forbids
Forbidden(d) ==
  CASE d = "Cannot Attack" -> "ATTACK"
    [] d = "Cannot Defend" -> "DEFEND"
    [] d = "Cannot Kick"   -> "KICKS"
    [] d = "Cannot Feint"  -> "FEINT"
    [] OTHER -> None

APOf(p) == IF p = 1 THEN state.p1_ap ELSE state.p2_ap

\* C6: get_available_actions(player) is the mode's action list, in its order,
\* without the action the player's debuff forbids (debuffs enabled) and
\* without the actions costing more than the player's AP (action points
\* used); Cannot Attack removes ATTACK only, AP = 1 leaves [DEFEND, FEINT],
\* AP <= 0 leaves the empty list.
C6_AvailableActions ==
  (call.op = "get_available_actions") =>
    LET p == call.player_id
        Allowed(a) == config.debuffs => a # Forbidden(DebuffOf(p))
        Payable(a) ==
          (config.action_points # NoInt) => config.action_costs[a] <= Val(APOf(p))
        Keep(a) == Allowed(a) /\ Payable(a)
        NotAttack(a) == a # "ATTACK"
    IN  /\ call.actions = SelectSeq(config.actions, Keep)
        /\ (config.debuffs /\ DebuffOf(p) = "Cannot Attack")
             => call.actions = SelectSeq(config.actions, NotAttack)
        /\ (game_mode = "action_points" /\ Val(APOf(p)) = 1)
             => call.actions = <<"DEFEND", "FEINT">>
        /\ (game_mode = "action_points" /\ Val(APOf(p)) <= 0)
             => call.actions = <<>>

\* player 2 is asked with exactly 1 AP left
C6_Witness ==
  /\ call.op = "get_available_actions" /\ call.player_id = 2
  /\ game_mode = "action_points" /\ state.p2_ap = Int1(1)
  /\ call.actions = <<"DEFEND", "FEINT">>

\* C7: in first_blood mode a turn after which nobody has lost HP returns
\* Continue, and the first turn in which HP is lost returns the First Blood
\* win of the player whose HP is still the starting HP, while the damaged
\* player's HP is above zero.
C7_FirstBlood ==
  (LastResolve /\ game_mode = "first_blood") =>
    /\ (state.p1_hp = config.hp /\ state.p2_hp = config.hp)
         => call.status = "Continue"
    /\ (call.pre.p1_hp = config.hp /\ call.pre.p2_hp = config.hp /\ Lost(1) > 0)
         => /\ call.status = "P2 Wins (First Blood)"
            /\ state.p2_hp = config.hp /\ state.p1_hp > 0
    /\ (call.pre.p1_hp = config.hp /\ call.pre.p2_hp = config.hp /\ Lost(2) > 0)
         => /\ call.status = "P1 Wins (First Blood)"
            /\ state.p1_hp = config.hp /\ state.p2_hp > 0

\* the third turn of a first_blood match is the first one with damage: two
\* Continue turns, then player 2 wins by First Blood with player 1 at 2 HP
C7_Witness ==
  /\ LastResolve /\ game_mode = "first_blood"
  /\ state.turn = 3 /\ ~call.pre.first_damage_dealt
  /\ Lost(1) = 1 /\ state.p1_hp = 2
  /\ call.status = "P2 Wins (First Blood)"

\* the verdict of the HP rules alone
HPVerdict ==
  IF state.p1_hp <= 0 /\ state.p2_hp <= 0 THEN "Draw"
  ELSE IF state.p1_hp <= 0 THEN "P2 Wins"
  ELSE IF state.p2_hp <= 0 THEN "P1 Wins"
  ELSE "Continue"

\* C8: in action_points mode the verdict is decided by AP before HP: both
\* AP <= 0 is Draw (Both Out of AP), exactly one AP <= 0 is the other
\* player's win whatever the HP values, and the HP rules decide only when
\* both AP > 0.
C8_APBeforeHP ==
  (LastResolve /\ game_mode = "action_points") =>
    LET ap1 == Val(state.p1_ap)
        ap2 == Val(state.p2_ap)
    IN  /\ (ap1 <= 0 /\ ap2 <= 0) => call.status = "Draw (Both Out of AP)"
        /\ (ap1 <= 0 /\ ap2 > 0)  => call.status = "P2 Wins (P1 Out of AP)"
        /\ (ap1 > 0 /\ ap2 <= 0)  => call.status = "P1 Wins (P2 Out of AP)"
        /\ (ap1 > 0 /\ ap2 > 0)   => call.status = HPVerdict

\* player 1 spends its last AP on the attack that brings player 2 to 0 HP and
\* loses by running out of AP
C8_Witness ==
  /\ LastResolve /\ game_mode = "action_points"
  /\ call.p1_action = "ATTACK" /\ call.p2_action = "FEINT"
  /\ Lost(2) = 1 /\ state.p2_hp <= 0
  /\ Val(state.p1_ap) <= 0 /\ Val(state.p2_ap) > 0
  /\ call.status = "P2 Wins (P1 Out of AP)"

\* C9: in standard and no_kick mode the verdict is a function of post-turn HP
\* only: Continue iff both HP > 0, P1 Wins iff p2_hp <= 0 < p1_hp, P2 Wins iff
\* p1_hp <= 0 < p2_hp, Draw iff both HP <= 0; a damaging exchange that leaves
\* the loser alive gives Continue, exactly 1 HP lost and no debuff.
C9_VerdictFromHP ==
  (LastResolve /\ game_mode \in {"standard", "no_kick"}) =>
    /\ call.status \in {"Continue", "P1 Wins", "P2 Wins", "Draw"}
    /\ (call.status = "Continue") <=> (state.p1_hp > 0 /\ state.p2_hp > 0)
    /\ (call.status = "P1 Wins") <=> (state.p2_hp <= 0 /\ state.p1_hp > 0)
    /\ (call.status = "P2 Wins") <=> (state.p1_hp <= 0 /\ state.p2_hp > 0)
    /\ (call.status = "Draw") <=> (state.p1_hp <= 0 /\ state.p2_hp <= 0)
    /\ (Lost(1) + Lost(2) # 0 /\ state.p1_hp > 0 /\ state.p2_hp > 0)
         => /\ call.status = "Continue"
            /\ Lost(1) + Lost(2) = 1 /\ Lost(1) >= 0 /\ Lost(2) >= 0
            /\ state.p1_debuff = None /\ state.p2_debuff = None

\* the turn that takes player 1's last HP when player 2 is already at 0 HP
C9_Witness ==
  /\ LastResolve /\ game_mode = "standard"
  /\ Lost(1) = 1 /\ state.p1_hp = 0 /\ state.p2_hp = 0
  /\ call.status = "Draw"

\* the debuff the mode's rule table gives a player who played `mine` against
\* `theirs`
TableDebuff(mode, mine, theirs) ==
  LET rows == IF mode = "no_kick" THEN ThreeRows ELSE SixRows
      hit == { r \in rows : r.loser = mine /\ r.winner = theirs }
  IN  IF hit = {} THEN None ELSE (CHOOSE r \in hit : TRUE).debuff

\* C10: in debuff-enabled modes the debuffs after every resolved turn are the
\* ones the rule table gives for that turn's two actions, whatever debuffs
\* were held before: a debuff of turn N is still there after turn N+1 only if
\* turn N+1's actions set it again.
C10_DebuffsFromLastTurnOnly ==
  config.debuffs =>
    /\ \A i \in 1..Len(game_history) :
         LET h == game_history[i]
         IN  /\ h.p1_debuff = TableDebuff(game_mode, h.p1_action, h.p2_action)
             /\ h.p2_debuff = TableDebuff(game_mode, h.p2_action, h.p1_action)
    /\ game_history # <<>> =>
         /\ state.p1_debuff = game_history[Len(game_history)].p1_debuff
         /\ state.p2_debuff = game_history[Len(game_history)].p2_debuff

\* player 1 got Cannot Attack on turn 1; on turn 2 both attacked and the
\* debuff is gone, and it is still gone after turn 3
C10_Witness ==
  /\ game_mode = "standard" /\ Len(game_history) = 3
  /\ game_history[1].p1_debuff = "Cannot Attack"
  /\ game_history[2].p1_action = "ATTACK" /\ game_history[2].p2_action = "ATTACK"
  /\ game_history[2].p1_debuff = None
  /\ game_history[3].p1_debuff = None /\ state.p1_debuff = None

\* the action costs of action_points mode as the specification lists them
ListedCost(a) ==
  CASE a = "ATTACK" -> 2 [] a = "DEFEND" -> 1 [] a = "KICKS" -> 2 [] a = "FEINT" -> 1

\* C11: in action_points mode a resolve_turn call lowers each player's AP by
\* exactly the cost of the action that player chose (ATTACK 2, DEFEND 1,
\* KICKS 2, FEINT 1), on no-effect turns too, and every other operation
\* except reset leaves AP as it is: AP strictly decreases from turn to turn.
C11_APDecreasesByCost ==
  [][ game_mode = "action_points" =>
        IF call'.op = "resolve_turn"
          THEN /\ Val(state'.p1_ap) = Val(state.p1_ap) - ListedCost(call'.p1_action)
               /\ Val(state'.p2_ap) = Val(state.p2_ap) - ListedCost(call'.p2_action)
               /\ Val(state'.p1_ap) < Val(state.p1_ap)
               /\ Val(state'.p2_ap) < Val(state.p2_ap)
        ELSE IF call'.op = "reset"
          THEN TRUE
        ELSE state'.p1_ap = state.p1_ap /\ state'.p2_ap = state.p2_ap ]_vars

\* a DEFEND-vs-DEFEND turn (no effect) has taken 1 AP from both players
C11_Witness ==
  /\ LastResolve /\ game_mode = "action_points"
  /\ call.p1_action = "DEFEND" /\ call.p2_action = "DEFEND"
  /\ state.turn = 2
  /\ Val(state.p1_ap) = Val(call.pre.p1_ap) - 1
  /\ Val(state.p2_ap) = Val(call.pre.p2_ap) - 1

\* C12: after N resolve_turn calls on a new or reset match, state['turn'] is
\* N, game_history has N entries and the i-th entry has turn field i.
C12_TurnCountsHistory ==
  /\ state.turn = call.n
  /\ Len(game_history) = call.n
  /\ \A i \in 1..Len(game_history) : game_history[i].turn = i

\* three calls have been resolved
C12_Witness ==
  /\ LastResolve /\ call.n = 3
  /\ state.turn = 3 /\ Len(game_history) = 3 /\ game_history[3].turn = 3

\* C13: in action_points mode both debuffs are None in every reachable state
\* and history entry; in the other three modes both AP fields are None in
\* every reachable state and history entry.
C13_ModeGating ==
  IF game_mode = "action_points"
    THEN /\ state.p1_debuff = None /\ state.p2_debuff = None
         /\ \A i \in 1..Len(game_history) :
              game_history[i].p1_debuff = None /\ game_history[i].p2_debuff = None
    ELSE /\ state.p1_ap = NoInt /\ state.p2_ap = NoInt
         /\ \A i \in 1..Len(game_history) :
              game_history[i].p1_ap = NoInt /\ game_history[i].p2_ap = NoInt

\* DEFEND beat ATTACK in action_points mode and nobody holds a debuff
C13_Witness ==
  /\ LastResolve /\ game_mode = "action_points"
  /\ call.p1_action = "DEFEND" /\ call.p2_action = "ATTACK"
  /\ state.p1_debuff = None /\ state.p2_debuff = None

\* C18: first_damage_dealt is false on a new match, becomes true on the first
\* resolve_turn in which some HP decreases and is not set back to false by a
\* later resolve_turn; in every reachable state it is true iff some player's
\* HP is below the starting HP.
C18_FirstDamageFlag ==
  /\ state.first_damage_dealt
       <=> (state.p1_hp < config.hp \/ state.p2_hp < config.hp)
  /\ call.op = "__init__" => ~state.first_damage_dealt
  /\ LastResolve =>
       /\ call.pre.first_damage_dealt => state.first_damage_dealt
       /\ (~call.pre.first_damage_dealt /\ state.first_damage_dealt)
            <=> (~call.pre.first_damage_dealt /\ (Lost(1) > 0 \/ Lost(2) > 0))

\* a turn without damage after an earlier damaging turn: the flag stays true
C18_Witness ==
  /\ LastResolve /\ game_mode = "standard"
  /\ call.pre.first_damage_dealt /\ state.first_damage_dealt
  /\ Lost(1) = 0 /\ Lost(2) = 0
  /\ state.p2_hp < config.hp

\* the token of action a occurs in the text at position i, in any letter case
OccursAt(a, text, i) ==
  /\ i + Len(ActionText(a)) - 1 <= Len(text)
  /\ \A j \in 1..Len(ActionText(a)) : UpperChar(text[i + j - 1]) = ActionText(a)[j]

\* some action of the list has its token somewhere in the text
SomeTokenOccurs(available_actions, text) ==
  \E k \in 1..Len(available_actions), i \in 1..Len(text) :
    OccursAt(available_actions[k], text, i)

ParseReturned == run.pc = "returned"

\* C20: parse_action with a non-empty available_actions list always returns
\* a member of that list; when no available action's token occurs anywhere
\* in the model output (tokens are matched in any letter case) it returns the
\* first element of available_actions.
C20_ParseReturnsMember ==
  (ParseReturned /\ run.available_actions # <<>>) =>
    /\ InList(run.action, run.available_actions)
    /\ ~SomeTokenOccurs(run.available_actions, run.model_output)
         => run.action = run.available_actions[1]

\* a two-line answer that names only an action the player may not use: the
\* first available action, here not DEFEND, is returned
C20_Witness ==
  /\ ParseReturned
  /\ run.model_output = LineNoIdea \o <<"\n">> \o LineKick
  /\ ~InList("KICKS", run.available_actions)
  /\ run.available_actions[1] # "DEFEND"
  /\ run.action = run.available_actions[1]

\* run_game has a task
HasTask == run.pc \notin {"construct", "raised"}

\* the last thing run_game did was one resolve_turn call and the rest of
\* that loop iteration
RunResolved == HasTask /\ call.op = "resolve_turn"

\* C14: every pair of actions that run_game passes to resolve_turn consists
\* of a member of player 1's and a member of player 2's
\* get_available_actions result for the pre-turn state, on every path: a
\* parsed answer, an unparseable answer and a model call that raised.
C14_PassesAvailableActions ==
  /\ run.pc = "resolve" =>
       /\ InList(run.p1_action, get_available_actions(config, state, 1))
       /\ InList(run.p2_action, get_available_actions(config, state, 2))
  /\ RunResolved =>
       /\ InList(call.p1_action, get_available_actions(config, call.pre, 1))
       /\ InList(call.p2_action, get_available_actions(config, call.pre, 2))

\* player 1 may not attack and its model call raised, player 2's answer
\* names no action: DEFEND and ATTACK, the first available ones, were passed
C14_Witness ==
  /\ RunResolved
  /\ call.pre.p1_debuff = "Cannot Attack"
  /\ run.p1_model_output = ErrorText /\ call.p1_action = "DEFEND"
  /\ run.p2_model_output = LineNoIdea /\ call.p2_action = "ATTACK"

\* C15: run_game's turn loop always terminates: for max_turns >= 1 it
\* resolves at most max_turns turns, and if the verdict is still Continue
\* after max_turns resolved turns the match ends with the result
\* 'Draw (Turn Limit)', which no verdict of resolve_turn equals.
C15_TurnLoopTerminates ==
  /\ [](HasTask =>
          /\ call.status # "Draw (Turn Limit)"
          /\ run.args.max_turns >= 1 =>
               (call.n <= run.args.max_turns /\ state.turn <= run.args.max_turns)
          /\ (RunResolved /\ call.n = run.args.max_turns
                /\ call.status = "Continue") =>
               (run.pc = "done" /\ run.game_status = "Draw (Turn Limit)"))
  /\ <>(run.pc \in {"done", "raised"})

\* the second of two allowed turns still gave Continue: the draw by turn limit
C15_Witness ==
  /\ run.pc = "done" /\ run.args.max_turns = 2
  /\ call.op = "resolve_turn" /\ call.n = 2 /\ call.status = "Continue"
  /\ run.game_status = "Draw (Turn Limit)"

\* C17: constructing a match with a mode name outside {standard, no_kick,
\* first_blood, action_points} fails with an error and yields no match;
\* with one of the four names it succeeds with both HP 3, both AP 5 in
\* action_points and None otherwise, both debuffs None, turn 0,
\* first_damage_dealt false and an empty history.
C17_Construction ==
  run.pc # "construct" =>
    IF run.args.game_mode
         \in {"standard", "no_kick", "first_blood", "action_points"}
      THEN /\ run.pc # "raised"
           /\ game_mode = run.args.game_mode
           /\ call.op = "__init__" =>
                /\ state =
                     [ p1_hp |-> 3, p2_hp |-> 3,
                       p1_ap |-> IF game_mode = "action_points"
                                   THEN Int1(5) ELSE NoInt,
                       p2_ap |-> IF game_mode = "action_points"
                                   THEN Int1(5) ELSE NoInt,
                       p1_debuff |-> None, p2_debuff |-> None,
                       turn |-> 0, first_damage_dealt |-> FALSE ]
                /\ game_history = <<>>
      ELSE /\ run.pc = "raised"
           /\ call.op = "none" /\ game_mode = None /\ state = None
           /\ game_history = <<>>

\* the name "Standard" is not a mode: the constructor raised
C17_Witness ==
  /\ run.pc = "raised" /\ run.args.game_mode = "Standard"
  /\ call.op = "none"

\* C19: within one turn of run_game both players choose against the same
\* pre-turn state: nothing changes the match between the two players'
\* queries and prompts, player 2's actions and prompt are those of the state
\* the turn started from (whatever player 1 chose), and resolve_turn is
\* called only after both actions have been obtained in that turn.
C19_SamePreTurnState ==
  [][ /\ run.pc \in {"p1_available", "p1_model", "p2_available", "p2_model"}
           => (state' = state /\ game_history' = game_history)
      /\ run'.pc = "resolve" =>
           /\ state' = run'.turn_start
           /\ run'.p1_actions
                = get_available_actions(config, run'.turn_start, 1)
           /\ run'.p2_actions
                = get_available_actions(config, run'.turn_start, 2)
           /\ run'.p1_prompt
                = propose_prompt_wrap(game_mode, run'.turn_start, 1)
           /\ run'.p2_prompt
                = propose_prompt_wrap(game_mode, run'.turn_start, 2)
      /\ (call'.op = "resolve_turn" /\ call' # call) =>
           /\ run.pc = "resolve"
           /\ run.p1_model_output # NoOutput /\ run.p2_model_output # NoOutput
           /\ call'.p1_action = run.p1_action
           /\ call'.p2_action = run.p2_action
           /\ call'.pre = run.turn_start
    ]_vars

\* second turn in action_points mode: player 1 has chosen KICKS, player 2's
\* prompt still shows player 1's action points as the turn began with them
C19_Witness ==
  /\ run.pc = "resolve" /\ game_mode = "action_points"
  /\ state.turn = 1 /\ state = run.turn_start
  /\ run.p1_action = "KICKS" /\ run.p2_action = "DEFEND"
  /\ run.p2_prompt.op_ap = state.p1_ap /\ Val(state.p1_ap) < 5

\* C21: each history entry records the two actions of its turn and the HP,
\* AP and debuff of both players as they are right after that turn's
\* resolution; resolve_turn only appends, so the entries of earlier turns are
\* neither changed nor removed.
C21_HistoryAppendOnly ==
  LastResolve =>
    /\ Len(game_history) = Len(call.pre_history) + 1
    /\ \A i \in 1..Len(call.pre_history) : game_history[i] = call.pre_history[i]
    /\ LET e == game_history[Len(game_history)]
       IN  /\ e.p1_action = call.p1_action /\ e.p2_action = call.p2_action
           /\ e.p1_hp = state.p1_hp /\ e.p2_hp = state.p2_hp
           /\ e.p1_ap = state.p1_ap /\ e.p2_ap = state.p2_ap
           /\ e.p1_debuff = state.p1_debuff /\ e.p2_debuff = state.p2_debuff

\* a second turn that replaced player 1's debuff by one for player 2: the
\* first entry still shows the old debuff, the new entry the new one
C21_Witness ==
  /\ LastResolve /\ Len(game_history) = 2
  /\ game_history[1].p1_debuff # None /\ game_history[1].p2_debuff = None
  /\ game_history[2].p1_debuff = None /\ game_history[2].p2_debuff # None
  /\ state.p2_debuff = game_history[2].p2_debuff

\* C22: no sequence of get_available_actions, resolve_turn and reset calls
\* changes the mode configuration (actions, costs, starting HP and AP, win
\* condition, debuff flag), and a call on one match never changes the HP,
\* AP, debuffs, turn counter or history of another match, also when both
\* matches are of the same mode.
C22_ConfigAndOtherMatchUnchanged ==
  [][ /\ run'.GAME_MODES = GAME_MODES
      /\ run'.tasks[3 - run'.last.task] = run.tasks[3 - run'.last.task]
      /\ \A t \in Matches : run'.tasks[t].game_mode = run.tasks[t].game_mode
    ]_vars

\* two standard matches: the first was played for two turns and its player
\* 2, who may not attack, asked for the available actions; the second match
\* is as constructed and the configuration still lists four actions
C22_Witness ==
  /\ run.last.op = "get_available_actions" /\ run.last.task = 1
  /\ run.tasks[1].game_mode = "standard" /\ run.tasks[2].game_mode = "standard"
  /\ run.tasks[1].state.turn = 2
  /\ run.tasks[1].state.p2_debuff = "Cannot Attack"
  /\ ~InList("ATTACK", run.last.actions)
  /\ run.tasks[2].state = InitialState(GAME_MODES["standard"])
  /\ run.tasks[2].game_history = <<>>
  /\ Len(run.GAME_MODES["standard"].actions) = 4

\* C23: when resolve_turn returns a terminal verdict (a Wins or rule-based
\* Draw verdict) on any turn of run_game, turn number max_turns included,
\* the match's final result is that verdict; 'Draw (Turn Limit)' is the
\* final result only when the last resolved turn's verdict was Continue.
\* (Stated for max_turns >= 1, where a turn number max_turns exists.)
C23_TerminalVerdictIsFinal ==
  (RunResolved /\ run.pc = "done" /\ run.args.max_turns >= 1) =>
    /\ call.status # "Continue" => run.game_status = call.status
    /\ run.game_status = "Draw (Turn Limit)" => call.status = "Continue"

\* run_game is inside a turn: the verdict so far is Continue
InTurn ==
  run.pc \in {"p1_available", "p1_model", "p2_available", "p2_model", "resolve"}

C25_APMatchKeepsHP ==
  game_mode = "action_points" =>
    /\ state.p1_hp >= 1 /\ state.p2_hp >= 1
    /\ (LastResolve /\ call.status # "Continue") =>
         call.status \in {"Draw (Both Out of AP)", "P2 Wins (P1 Out of AP)",
                          "P1 Wins (P2 Out of AP)"}

\* player 1 has hit twice and is out of action points on the third turn:
\* player 2 is left with 1 HP and wins
C25_Witness ==
  /\ game_mode = "action_points" /\ LastResolve
  /\ state.p2_hp = 1 /\ state.p1_hp = 3
  /\ Val(state.p1_ap) = 0 /\ Val(state.p2_ap) > 0
  /\ call.status = "P2 Wins (P1 Out of AP)"

\* C26: in action_points mode, in every state reachable through run_game,
\* both players' AP stays within 0..5 (never negative), and the match
\* reaches a terminal verdict after at most 5 resolved turns.
C26_APBounded ==
  (HasTask /\ game_mode = "action_points") =>
    /\ Val(state.p1_ap) \in 0..5 /\ Val(state.p2_ap) \in 0..5
    /\ call.n <= 5 /\ state.turn <= 5
    /\ (RunResolved /\ call.n = 5) => call.status # "Continue"

\* both players spent one action point per turn: the fifth turn ends the
\* match, long before the turn limit, with both at 0 AP
C26_Witness ==
  /\ RunResolved /\ game_mode = "action_points"
  /\ run.args.max_turns = MaxAPTurnLimit /\ run.pc = "done"
  /\ call.n = 5 /\ Val(state.p1_ap) = 0 /\ Val(state.p2_ap) = 0
  /\ run.game_status = "Draw (Both Out of AP)"

\* C27: every resolved turn lowers the sum of both players' HP by at most 1
\* (at most one player is damaged, by exactly 1) and never raises any HP;
\* consequently, in a match played through run_game, no HP ever goes below
\* 0, the two HP values are never both <= 0, and the plain 'Draw' of the HP
\* check is never returned.
C27_OneHPPerTurn ==
  HasTask =>
    /\ \A p1_action \in Actions, p2_action \in Actions :
         LET r == resolve_turn(game_mode, state, game_history,
                               p1_action, p2_action)
             lost1 == state.p1_hp - r.state.p1_hp
             lost2 == state.p2_hp - r.state.p2_hp
         IN  lost1 \in {0, 1} /\ lost2 \in {0, 1} /\ lost1 + lost2 <= 1
    /\ state.p1_hp >= 0 /\ state.p2_hp >= 0
    /\ ~(state.p1_hp <= 0 /\ state.p2_hp <= 0)
    /\ call.status # "Draw"

\* a match in which each player was hit twice before player 1 lost the last
\* HP on the fifth turn
C27_Witness ==
  /\ RunResolved /\ run.pc = "done" /\ call.n = 5
  /\ call.pre.p1_hp = 1 /\ call.pre.p2_hp = 1
  /\ state.p1_hp = 0 /\ state.p2_hp = 1
  /\ call.status = "P2 Wins"

\* C28: a debuff set by resolve_turn always forbids the action that the
\* debuffed player played in that same turn; hence, in a match played
\* through run_game in a debuff-enabled mode, a player who received a debuff
\* on turn N does not play the forbidden action on turn N+1, and no player
\* holds the same debuff after two consecutive turns.
C28_DebuffForbidsOwnAction ==
  (HasTask /\ config.debuffs) =>
    /\ \A p1_action \in Actions, p2_action \in Actions :
         LET r == resolve_turn(game_mode, state, game_history,
                               p1_action, p2_action)
         IN  /\ r.state.p1_debuff # None
                  => Forbidden(r.state.p1_debuff) = p1_action
             /\ r.state.p2_debuff # None
                  => Forbidden(r.state.p2_debuff) = p2_action
    /\ RunResolved =>
         \A p \in Players :
           DebuffBefore(p) # None =>
             /\ ActionOf(p) # Forbidden(DebuffBefore(p))
             /\ DebuffOf(p) # DebuffBefore(p)

\* player 1 could not attack on the second turn, feinted into a defence and
\* now cannot feint
C28_Witness ==
  /\ RunResolved /\ game_mode = "standard" /\ state.turn = 2
  /\ DebuffBefore(1) = "Cannot Attack"
  /\ call.p1_action = "FEINT" /\ call.p2_action = "DEFEND"
  /\ DebuffOf(1) = "Cannot Feint"

\* C29: after every resolved turn at most one of the two players has a
\* debuff, and a turn that reduces some player's HP sets no debuff on either
\* player (damage and debuff are mutually exclusive outcomes of one turn).
C29_DamageOrDebuff ==
  LastResolve =>
    /\ ~(state.p1_debuff # None /\ state.p2_debuff # None)
    /\ (Lost(1) > 0 \/ Lost(2) > 0) =>
         (state.p1_debuff = None /\ state.p2_debuff = None)

\* player 2 held a debuff when player 1's kick went through the defence:
\* the hit leaves nobody with a debuff
C29_Witness ==
  /\ LastResolve /\ game_mode = "standard"
  /\ call.pre.p2_debuff = "Cannot Attack"
  /\ call.p1_action = "KICKS" /\ call.p2_action = "DEFEND"
  /\ Lost(2) = 1
  /\ state.p1_debuff = None /\ state.p2_debuff = None

\* HP lost by both players together since the match began
TotalLost == (config.hp - state.p1_hp) + (config.hp - state.p2_hp)

\* C30: in first_blood mode, in a match played through run_game, exactly
\* one HP in total has been lost when resolve_turn returns its first
\* non-Continue verdict; that verdict is always a '(First Blood)' win (of the
\* player who was not hit), and the HP-zero wins and the rule-based Draw
\* are never returned.
C30_FirstBloodEndsAtFirstHit ==
  (RunResolved /\ game_mode = "first_blood") =>
    /\ call.status \notin {"P1 Wins", "P2 Wins", "Draw"}
    /\ call.status = "Continue" => TotalLost = 0
    /\ call.status # "Continue" =>
         /\ TotalLost = 1
         /\ \A i \in 1..(Len(run.game_log) - 1) :
              run.game_log[i].game_status = "Continue"
         /\ call.status = IF state.p1_hp < config.hp
                            THEN "P2 Wins (First Blood)"
                            ELSE "P1 Wins (First Blood)"

\* a first turn without damage, then player 2's attack meets a feint
C30_Witness ==
  /\ RunResolved /\ game_mode = "first_blood" /\ state.turn = 2
  /\ call.pre.p1_debuff # None
  /\ call.p1_action = "FEINT" /\ call.p2_action = "ATTACK"
  /\ state.p1_hp = 2 /\ state.p2_hp = 3
  /\ call.status = "P2 Wins (First Blood)"

\* C31: reset() after any sequence of resolve_turn calls leaves the match
\* exactly as a freshly constructed match of the same mode: both HP at the
\* mode's starting HP, both AP at the mode's starting AP, both debuffs None,
\* turn 0, first_damage_dealt false, an empty history; the mode, and with
\* it the configuration, is the one the match had before.
C31_ResetRestoresFreshMatch ==
  [][ call'.op = "reset" =>
        /\ game_mode' = game_mode
        /\ config' = config
        /\ state'.p1_hp = config.hp /\ state'.p2_hp = config.hp
        /\ state'.p1_ap = config.action_points
        /\ state'.p2_ap = config.action_points
        /\ state'.p1_debuff = None /\ state'.p2_debuff = None
        /\ state'.turn = 0
        /\ state'.first_damage_dealt = FALSE
        /\ game_history' = <<>>
        /\ state' = Replay(game_mode, <<>>).state
        /\ game_history' = Replay(game_mode, <<>>).game_history ]_vars

\* a match reset after MaxTurns turns in which HP was lost, the first-damage
\* flag was set and player 1 carried a debuff
C31_Witness ==
  /\ call.op = "reset"
  /\ call.pre.turn = MaxTurns
  /\ call.pre.p2_hp < config.hp
  /\ call.pre.first_damage_dealt
  /\ call.pre.p1_debuff # None
  /\ state = InitialState(config)
  /\ game_history = <<>>

\* C32: when run_game's loop has been left, by a terminal verdict, by a
\* player without valid actions or by the turn limit, the reported
\* total_turns is the number of resolve_turn calls made, which is also
\* state['turn'], the length of game_history and the length of
\* turn_by_turn_log; the k-th turn_by_turn_log entry has the turn number and
\* the two actions of the k-th game_history entry.
C32_TurnCountsAgree ==
  run.pc = "done" =>
    LET summary == game_summary(run, game_history)
    IN  /\ summary.total_turns = call.n
        /\ summary.total_turns = state.turn
        /\ summary.total_turns = Len(summary.game_history)
        /\ summary.total_turns = Len(summary.turn_by_turn_log)
        /\ \A k \in 1..Len(summary.turn_by_turn_log) :
              /\ k \in 1..Len(summary.game_history)
              /\ summary.turn_by_turn_log[k].turn
                   = summary.game_history[k].turn
              /\ summary.turn_by_turn_log[k].p1_action
                   = summary.game_history[k].p1_action
              /\ summary.turn_by_turn_log[k].p2_action
                   = summary.game_history[k].p2_action

\* a run that a terminal verdict ended after more than MaxTurnLimit turns,
\* with different actions played in its first two turns
C32_Witness ==
  /\ run.pc = "done"
  /\ run.game_status \notin {"Continue", "Draw (Turn Limit)"}
  /\ Len(run.game_log) > MaxTurnLimit
  /\ Len(game_history) > MaxTurnLimit
  /\ <<game_history[1].p1_action, game_history[1].p2_action>>
       # <<game_history[2].p1_action, game_history[2].p2_action>>

\* the lines of a model output, and the places of the lines on which some
\* action of the list is written, in any letter case
OutputLines == SplitLines(run.model_output)

Mentions(line, action) ==
  \E i \in 1..Len(line) : OccursAt(action, line, i)

MentioningLines ==
  { k \in 1..Len(OutputLines) :
      \E j \in 1..Len(run.available_actions) :
        Mentions(OutputLines[k], run.available_actions[j]) }

\* C33: when the model output mentions available actions, on several lines
\* or on one, parse_action returns an action that occurs on the last line
\* containing any available action; of the available actions on that line
\* it returns the one that comes first in the available_actions order.
C33_LastMentioningLineWins ==
  (ParseReturned /\ MentioningLines # {}) =>
    LET last == CHOOSE k \in MentioningLines :
                  \A m \in MentioningLines : m <= k
        first == CHOOSE j \in 1..Len(run.available_actions) :
                   /\ Mentions(OutputLines[last], run.available_actions[j])
                   /\ \A i \in 1..(j - 1) :
                        ~Mentions(OutputLines[last], run.available_actions[i])
    IN  /\ Mentions(OutputLines[last], run.action)
        /\ run.action = run.available_actions[first]

\* two lines mention available actions; the last one names FEINT before
\* DEFEND while the list has DEFEND before FEINT, and the line above names
\* a third action
C33_Witness ==
  /\ ParseReturned
  /\ run.model_output = LineAttack \o <<"\n">> \o LineFeintDefend
  /\ run.available_actions = <<"ATTACK", "DEFEND", "KICKS", "FEINT">>
  /\ MentioningLines = {1, 2}
  /\ run.action = "DEFEND"

====
